---- MODULE Spec2Model ----
(***************************************************************************)
(* Model of scripts/fix_handler_tests.py and scripts/fix_test_responses.py *)
(* of go-rest-api-boilerplate: two scripts that rewrite assertions of a Go *)
(* test file with re.sub and write the file back in place.                 *)
(*                                                                         *)
(* A document is a sequence of lexemes (TLA+ strings).  Every literal run  *)
(* of a regular expression or of a replacement template is cut into the    *)
(* same lexemes, a white-space character (\n, \t, space) is a lexeme of    *)
(* its own, and a character class with + (\s+, \w+) matches one or more    *)
(* consecutive lexemes of the class.                                       *)
(***************************************************************************)
EXTENDS Integers, Sequences, FiniteSets, TLC

VARIABLES script, argv, fs, orig, pc, content, ruleIdx, passes,
          stdout, err, exit, opens

vars == <<script, argv, fs, orig, pc, content, ruleIdx, passes,
          stdout, err, exit, opens>>

\* ------------------------------------------------------------------------
\* Lexemes
\* ------------------------------------------------------------------------
NL == "\n"

TAB == "\t"

SP == " "

QUOTE == "\""

\* the class \s of the patterns of fix_handler_tests.py
WhiteSpace == {NL, TAB, SP}

\* the class \w of the pattern of fix_test_responses.py: the lexemes made of
\* letters, digits and underscores only
WordLexemes == {"NOT_FOUND", "NOT_", "FOUND", "false"}

IsSpace(x) == x \in WhiteSpace

IsWord(x) == x \in WordLexemes

\* ------------------------------------------------------------------------
\* Regular expressions: a sequence of elements, each a literal lexeme, \s+
\* or \w+, with the span of elements that makes capture group 1.
\* ------------------------------------------------------------------------
Lit(s) == [k |-> "lit", s |-> s]

SpacePlus == [k |-> "s+", s |-> ""]

WordPlus == [k |-> "w+", s |-> ""]

Group1 == [k |-> "g1", s |-> ""]

InClass(k, x) == IF k = "s+" THEN IsSpace(x) ELSE IsWord(x)

\* number of consecutive lexemes of class k in doc from position pos
RECURSIVE RunLen(_, _, _)
RunLen(doc, pos, k) ==
  IF pos <= Len(doc) /\ InClass(k, doc[pos])
  THEN 1 + RunLen(doc, pos + 1, k)
  ELSE 0

\* Match of elements e.. of elems at position pos of doc.  X+ is greedy; in
\* every pattern of the two scripts X+ is followed by a literal outside the
\* class X, so giving back lexemes can never turn a failure into a match.
\* ends[i] is the position after the i-th element matched.
RECURSIVE MatchElems(_, _, _, _)
MatchElems(doc, pos, elems, e) ==
  IF e > Len(elems) THEN [ok |-> TRUE, ends |-> <<>>]
  ELSE LET el == elems[e]
           n  == IF el.k = "lit"
                 THEN (IF pos <= Len(doc) /\ doc[pos] = el.s THEN 1 ELSE 0)
                 ELSE RunLen(doc, pos, el.k)
       IN IF n = 0 THEN [ok |-> FALSE, ends |-> <<>>]
          ELSE LET r == MatchElems(doc, pos + n, elems, e + 1)
               IN [ok |-> r.ok, ends |-> <<pos + n>> \o r.ends]

\* the text of capture group 1 of a match at pos
GroupText(doc, pos, pat, ends) ==
  LET from == IF pat.gfrom = 1 THEN pos ELSE ends[pat.gfrom - 1]
  IN SubSeq(doc, from, ends[pat.gto] - 1)

\* expansion of a replacement template: literals and \1
RECURSIVE Expand(_, _)
Expand(repl, g1) ==
  IF repl = <<>> THEN <<>>
  ELSE (IF Head(repl).k = "g1" THEN g1 ELSE <<Head(repl).s>>)
       \o Expand(Tail(repl), g1)

\* the positions from pos on where pat matches
MatchPositions(doc, pos, pat) ==
  { p \in pos..Len(doc) : MatchElems(doc, p, pat.elems, 1).ok }

\* re.sub(pattern, repl, doc): the leftmost match from pos is replaced by the
\* expanded template, the text before it is copied, and the scan goes on
\* after the match (matches do not overlap)
RECURSIVE SubFrom(_, _, _, _)
SubFrom(doc, pos, pat, repl) ==
  LET at == MatchPositions(doc, pos, pat)
  IN IF at = {} THEN SubSeq(doc, pos, Len(doc))
     ELSE LET p == CHOOSE x \in at : \A y \in at : x <= y
              m == MatchElems(doc, p, pat.elems, 1)
          IN SubSeq(doc, pos, p - 1)
             \o Expand(repl, GroupText(doc, p, pat, m.ends))
             \o SubFrom(doc, m.ends[Len(m.ends)], pat, repl)

ReSub(pat, repl, doc) == SubFrom(doc, 1, pat, repl)

\* re.search: some position of doc where pat matches
Matches(pat, doc) ==
  \E p \in 1..Len(doc) : MatchElems(doc, p, pat.elems, 1).ok

\* ------------------------------------------------------------------------
\* The rules of the two scripts
\* ------------------------------------------------------------------------
StatusConflict == "http.StatusConflict"

StatusInternalServerError == "http.StatusInternalServerError"

StatusNotFound == "http.StatusNotFound"

StatusBadRequest == "http.StatusBadRequest"

ExpectedStatusLx == "expectedStatus: "

CheckResponseLx == "checkResponse: func(t *testing.T, w *httptest.ResponseRecorder) {"

VarResponseLx == "var response map[string]interface{}"

UnmarshalLx == "err := json.Unmarshal(w.Body.Bytes(), &response)"

NoErrorLx == "assert.NoError(t, err)"

EqualLx == "assert.Equal(t, "

ContainsLx == "assert.Contains(t, "

CommaLx == ", "

CloseLx == ")"

RespMessage == "response[\"message\"]"

RespDetails == "response[\"details\"]"

RespCode == "response[\"code\"]"

RespSuccess == "response[\"success\"]"

ErrorInfoLx == "errorInfo, ok := response[\"error\"].(map[string]interface{})"

AssertTrueLx == "assert.True(t, ok, \"error should be a map\")"

InfoMessage == "errorInfo[\"message\"]"

InfoDetails == "errorInfo[\"details\"]"

InfoCode == "errorInfo[\"code\"]"

EmailExists == "Email already exists"

DbError == "database connection error"

\* group 1 of both patterns of fix_handler_tests.py: the status line, the
\* checkResponse header, the declaration, the decoding, assert.NoError, each
\* followed by \s+
PreambleElems(status) ==
  << Lit(ExpectedStatusLx), Lit(status), Lit(","), SpacePlus,
     Lit(CheckResponseLx), SpacePlus,
     Lit(VarResponseLx), SpacePlus,
     Lit(UnmarshalLx), SpacePlus,
     Lit(NoErrorLx), SpacePlus >>

\* assert\.Equal\(t, "<lit>", response\["<field>"\]\)
OldEqualElems(lit, resp) ==
  << Lit(EqualLx), Lit(QUOTE), Lit(lit), Lit(QUOTE), Lit(CommaLx), Lit(resp),
     Lit(CloseLx) >>

\* \n\t\t\t\t between the statements of every replacement template
TemplateBreak == << Lit(NL), Lit(TAB), Lit(TAB), Lit(TAB), Lit(TAB) >>

\* the four statements of every replacement template; value is the literal
\* (a constant of the template, or \1) and info the errorInfo[...] access
TemplateElems(value, info) ==
  << Lit(EqualLx), Lit("false"), Lit(CommaLx), Lit(RespSuccess), Lit(CloseLx) >>
  \o TemplateBreak \o << Lit(ErrorInfoLx) >>
  \o TemplateBreak \o << Lit(AssertTrueLx) >>
  \o TemplateBreak
  \o << Lit(EqualLx), Lit(QUOTE) >> \o value
  \o << Lit(QUOTE), Lit(CommaLx), Lit(info), Lit(CloseLx) >>

\* fix_handler_tests.py, first rule: StatusConflict + "Email already exists"
ConflictPattern ==
  [elems |-> PreambleElems(StatusConflict) \o OldEqualElems(EmailExists, RespMessage),
   gfrom |-> 1, gto |-> 12]

\* faulty variant: the template forgets \1, so the matched preamble is dropped
ConflictReplacementNoGroup ==
  TemplateElems(<< Lit(EmailExists) >>, InfoMessage)

\* faulty variant: the template keeps the old assertion and adds the new idiom after it
ConflictReplacementKeepsOld ==
  << Group1 >> \o OldEqualElems(EmailExists, RespMessage) \o TemplateBreak
  \o TemplateElems(<< Lit(EmailExists) >>, InfoMessage)

ConflictReplacement ==
  << Group1 >> \o TemplateElems(<< Lit(EmailExists) >>, InfoMessage)

\* second rule: StatusInternalServerError + "database connection error"
ServerErrorPattern ==
  [elems |-> PreambleElems(StatusInternalServerError) \o OldEqualElems(DbError, RespDetails),
   gfrom |-> 1, gto |-> 12]

ServerErrorReplacement ==
  << Group1 >> \o TemplateElems(<< Lit(DbError) >>, InfoDetails)

replacements ==
  << [pattern |-> ConflictPattern, replacement |-> ConflictReplacement],
     [pattern |-> ServerErrorPattern, replacement |-> ServerErrorReplacement] >>

\* fix_test_responses.py, Pattern 1:
\* assert\.Contains\(t, "(\w+)", response\["code"\]\)
CodePattern ==
  [elems |-> << Lit(ContainsLx), Lit(QUOTE), WordPlus, Lit(QUOTE), Lit(CommaLx),
                Lit(RespCode), Lit(CloseLx) >>,
   gfrom |-> 3, gto |-> 3]

CodeReplacement == TemplateElems(<< Group1 >>, InfoCode)

\* fix_test_file(content): the one re.sub it performs (replace_error_message
\* is defined and never called)
fix_test_file(text) == ReSub(CodePattern, CodeReplacement, text)

\* the rule loop of fix_handler_tests.main from rule i on
RECURSIVE ApplyRules(_, _)
ApplyRules(text, i) ==
  IF i > Len(replacements) THEN text
  ELSE ApplyRules(ReSub(replacements[i].pattern, replacements[i].replacement, text), i + 1)

\* ------------------------------------------------------------------------
\* Documents: Go test text assembled from a few blocks
\* ------------------------------------------------------------------------
MaxBlocks == 3

MaxPasses == 2

MaxPartial == 2

T4 == << TAB, TAB, TAB, TAB >>

T2 == << TAB, TAB >>

EqualStmt(lit, resp) ==
  << EqualLx, QUOTE, lit, QUOTE, CommaLx, resp, CloseLx >>

ContainsStmt(lit, resp) ==
  << ContainsLx, QUOTE >> \o lit \o << QUOTE, CommaLx, resp, CloseLx >>

PreambleText(status, ind) ==
  << ExpectedStatusLx, status, ",", NL, CheckResponseLx, NL >>
  \o ind \o << VarResponseLx, NL >>
  \o ind \o << UnmarshalLx, NL >>
  \o ind \o << NoErrorLx >>

\* a table-test case whose checkResponse body is indented by ind
Block(status, ind, lit, resp) ==
  PreambleText(status, ind) \o << NL >> \o ind \o EqualStmt(lit, resp)
  \o << NL, "},", NL >>

HandlerBlocks ==
  << Block(StatusConflict, T4, EmailExists, RespMessage),
     Block(StatusConflict, T2, EmailExists, RespMessage),
     Block(StatusInternalServerError, T4, DbError, RespDetails),
     Block(StatusNotFound, T4, "User not found", RespMessage),
     Block(StatusBadRequest, T4, "Invalid input", RespMessage),
     \* the assertion alone, no preamble before it
     T4 \o EqualStmt(EmailExists, RespMessage) \o << NL >>,
     \* the preamble, another statement, then the assertion
     PreambleText(StatusConflict, T4) \o << NL >> \o T4
       \o << "assert.NotNil(t, response)", NL >> \o T4
       \o EqualStmt(EmailExists, RespMessage) \o << NL >> >>

ResponseBlocks ==
  << T4 \o ContainsStmt(<< "NOT_FOUND" >>, RespCode) \o << NL >>,
     T2 \o ContainsStmt(<< "NOT_", "FOUND" >>, RespCode) \o << NL >>,
     T4 \o ContainsStmt(<< "NOT FOUND" >>, RespCode) \o << NL >>,
     T4 \o ContainsStmt(<< >>, RespCode) \o << NL >>,
     T4 \o ContainsStmt(<< "NOT_FOUND" >>, RespMessage) \o << NL >>,
     T4 \o EqualStmt("NOT_FOUND", RespCode) \o << NL >> >>

HandlerScript == "fix_handler_tests.py"

ResponsesScript == "fix_test_responses.py"

Scripts == {HandlerScript, ResponsesScript}

BlocksOf(s) == IF s = HandlerScript THEN HandlerBlocks ELSE ResponseBlocks

RECURSIVE Flatten(_, _)
Flatten(blocks, ix) ==
  IF ix = << >> THEN << >> ELSE blocks[Head(ix)] \o Flatten(blocks, Tail(ix))

\* the documents of script s: up to MaxBlocks blocks in any order
Docs(s) ==
  { Flatten(BlocksOf(s), ix) :
      ix \in UNION { [1..n -> 1..Len(BlocksOf(s))] : n \in 0..MaxBlocks } }

\* ------------------------------------------------------------------------
\* The file system and the runs of the two scripts
\* ------------------------------------------------------------------------
\* filepath of fix_handler_tests.main
HandlerPath == "/Users/vahid.vahedi/grab/go-rest-api-boilerplate/internal/user/handler_test.go"

\* a path given on the command line of fix_test_responses.py
ArgPath == "internal/auth/handler_test.go"

Paths == {HandlerPath, ArgPath}

Prog(s) == "scripts/" \o s

\* the command lines: fix_handler_tests.py reads no argument
Argvs(s) ==
  IF s = HandlerScript THEN { << Prog(s) >> }
  ELSE { << Prog(s) >>, << Prog(s), ArgPath >>, << Prog(s), ArgPath, HandlerPath >> }

\* the file a run is about
Target == IF script = HandlerScript THEN HandlerPath ELSE ArgPath

File(exists, writable, text) ==
  [exists |-> exists, writable |-> writable, text |-> text]

Bystander == File(TRUE, TRUE, << "package user", NL >>)

FixedLine(path) == << "Fixed ", path >>

UsageLine == << "Usage: python3 fix_test_responses.py <test_file>" >>

Terminal == {"done", "failed"}

Running == pc \notin Terminal

\* an uncaught exception: traceback on stderr, exit status 1
Raise(name) ==
  /\ pc' = "failed"
  /\ err' = name
  /\ exit' = 1

InitRun(s, d, av, ex, wr) ==
  /\ script = s
  /\ argv = av
  /\ orig = d
  /\ fs = [p \in Paths |->
             IF p = (IF s = HandlerScript THEN HandlerPath ELSE ArgPath)
             THEN File(ex, wr, d) ELSE Bystander]
  /\ ruleIdx = 1
  /\ passes = 0
  /\ stdout = << >>
  /\ err = ""
  /\ exit = -1
  /\ opens = << >>

\* a run of either script on a file that is there (writable or not) or missing
Init ==
  /\ pc = "start"
  /\ content = << >>
  /\ \E s \in Scripts : \E av \in Argvs(s) :
       \/ \E d \in Docs(s), wr \in BOOLEAN : InitRun(s, d, av, TRUE, wr)
       \/ InitRun(s, << >>, av, FALSE, TRUE)

\* python3 fix_test_responses.py ...: the module does not compile.  The
\* f-string of replace_error_message holds "interface{}", an empty replacement
\* field, so the interpreter reports SyntaxError before any statement of the
\* file runs, for every command line.
RLoad ==
  /\ pc = "start"
  /\ script = ResponsesScript
  /\ Raise("SyntaxError")
  /\ UNCHANGED <<script, argv, fs, orig, content, ruleIdx, passes, stdout, opens>>

\* fix_handler_tests.main: with open(filepath, 'r') as f: content = f.read()
HRead ==
  /\ pc = "start"
  /\ script = HandlerScript
  /\ IF fs[HandlerPath].exists
     THEN /\ content' = fs[HandlerPath].text
          /\ opens' = Append(opens, [path |-> HandlerPath, mode |-> "r"])
          /\ pc' = "rules"
          /\ UNCHANGED <<err, exit>>
     ELSE /\ Raise("FileNotFoundError")
          /\ UNCHANGED <<content, opens>>
  /\ UNCHANGED <<script, argv, fs, orig, ruleIdx, passes, stdout>>

\* faulty variant: the file is written after every rule (write-as-you-go)
HApplyRuleWriteThrough ==
  /\ pc = "rules"
  /\ content' = ReSub(replacements[ruleIdx].pattern,
                      replacements[ruleIdx].replacement, content)
  /\ fs' = [fs EXCEPT ![Target].text = content']
  /\ IF ruleIdx = Len(replacements)
     THEN /\ pc' = "open_w"
          /\ passes' = passes + 1
          /\ UNCHANGED ruleIdx
     ELSE /\ ruleIdx' = ruleIdx + 1
          /\ UNCHANGED <<pc, passes>>
  /\ UNCHANGED <<script, argv, orig, stdout, err, exit, opens>>

\* one turn of: for pattern, replacement in replacements:
\*                  content = re.sub(pattern, replacement, content, ...)
HApplyRule ==
  /\ pc = "rules"
  /\ content' = ReSub(replacements[ruleIdx].pattern,
                      replacements[ruleIdx].replacement, content)
  /\ IF ruleIdx = Len(replacements)
     THEN /\ pc' = "open_w"
          /\ passes' = passes + 1
          /\ UNCHANGED ruleIdx
     ELSE /\ ruleIdx' = ruleIdx + 1
          /\ UNCHANGED <<pc, passes>>
  /\ UNCHANGED <<script, argv, fs, orig, stdout, err, exit, opens>>

\* faulty variant: the confirmation is printed before the file is written
HOpenWritePrintsFirst ==
  /\ pc = "open_w"
  /\ script = HandlerScript
  /\ IF fs[HandlerPath].writable
     THEN /\ fs' = [fs EXCEPT ![HandlerPath] = File(TRUE, TRUE, << >>)]
          /\ opens' = Append(opens, [path |-> HandlerPath, mode |-> "w"])
          /\ pc' = "write"
          /\ UNCHANGED <<err, exit>>
     ELSE /\ Raise("PermissionError")
          /\ UNCHANGED <<fs, opens>>
  /\ stdout' = Append(stdout, FixedLine(HandlerPath))
  /\ UNCHANGED <<script, argv, orig, content, ruleIdx, passes>>

\* open(filepath, 'w'): the file is truncated as it is opened
HOpenWrite ==
  /\ pc = "open_w"
  /\ script = HandlerScript
  /\ IF fs[HandlerPath].writable
     THEN /\ fs' = [fs EXCEPT ![HandlerPath] = File(TRUE, TRUE, << >>)]
          /\ opens' = Append(opens, [path |-> HandlerPath, mode |-> "w"])
          /\ pc' = "write"
          /\ UNCHANGED <<err, exit>>
     ELSE /\ Raise("PermissionError")
          /\ UNCHANGED <<fs, opens>>
  /\ UNCHANGED <<script, argv, orig, content, ruleIdx, passes, stdout>>

\* f.write(content) and the end of the with block
HWrite ==
  /\ pc = "write"
  /\ fs' = [fs EXCEPT ![HandlerPath].text = content]
  /\ pc' = "print"
  /\ UNCHANGED <<script, argv, orig, content, ruleIdx, passes, stdout, err, exit, opens>>

\* f.write(content) fails part way (the device is full): k lexemes are on disk
HWriteFail ==
  /\ pc = "write"
  /\ \E k \in 1..MaxPartial :
       /\ k < Len(content)
       /\ fs' = [fs EXCEPT ![HandlerPath].text = SubSeq(content, 1, k)]
  /\ Raise("OSError")
  /\ UNCHANGED <<script, argv, orig, content, ruleIdx, passes, stdout, opens>>

\* print(f"Fixed {filepath}") and the return of main
HPrint ==
  /\ pc = "print"
  /\ stdout' = Append(stdout, FixedLine(HandlerPath))
  /\ pc' = "done"
  /\ exit' = 0
  /\ UNCHANGED <<script, argv, fs, orig, content, ruleIdx, passes, err, opens>>

\* the run of either script is interrupted (SIGINT) before it has ended
Interrupt ==
  /\ Running
  /\ pc' = "failed"
  /\ err' = "KeyboardInterrupt"
  /\ exit' = 130
  /\ UNCHANGED <<script, argv, fs, orig, content, ruleIdx, passes, stdout, opens>>

Next ==
  \/ RLoad
  \/ HRead
  \/ HApplyRule
  \/ HOpenWrite
  \/ HWrite
  \/ HWriteFail
  \/ HPrint
  \/ Interrupt

Spec == Init /\ [][Next]_vars

\* ------------------------------------------------------------------------
\* The rewriting alone: the rule set of each script applied to a document,
\* and applied again to its own output
\* ------------------------------------------------------------------------
InitRewrite ==
  /\ \E s \in Scripts : \E d \in Docs(s) : InitRun(s, d, << Prog(s) >>, TRUE, TRUE)
  /\ content = orig
  /\ pc = IF script = HandlerScript THEN "rules" ELSE "fix"

\* fixed_content = fix_test_file(content): the call as lines 16-23 and 53
\* write it.  No run of the script as shipped gets here (see RLoad); the
\* step is taken on the text of the function alone.
RFix ==
  /\ pc = "fix"
  /\ content' = fix_test_file(content)
  /\ passes' = passes + 1
  /\ pc' = "open_w"
  /\ UNCHANGED <<script, argv, fs, orig, ruleIdx, stdout, err, exit, opens>>

\* the rule set is applied once more, to the text it produced
Again ==
  /\ pc = "open_w"
  /\ passes < MaxPasses
  /\ pc' = IF script = HandlerScript THEN "rules" ELSE "fix"
  /\ ruleIdx' = 1
  /\ UNCHANGED <<script, argv, fs, orig, content, passes, stdout, err, exit, opens>>

NextRewrite ==
  \/ HApplyRule
  \/ RFix
  \/ Again

SpecRewrite == InitRewrite /\ [][NextRewrite]_vars

\* ------------------------------------------------------------------------
\* What the specification says of a rewrite, stated without the matcher:
\* the context of a statement is read backwards from the statement, on the
\* original text, for all rules at once.
\* ------------------------------------------------------------------------
\* index of the last lexeme at or before j that is not white space, 0 if none
RECURSIVE BackSpace(_, _)
BackSpace(d, j) ==
  IF j <= 0 THEN 0
  ELSE IF IsSpace(d[j]) THEN BackSpace(d, j - 1) ELSE j

\* index of lexeme lx when it stands before position i with only white
\* space (at least one) in between, 0 otherwise
PrevLine(d, i, lx) ==
  LET j == BackSpace(d, i - 1)
  IN IF i >= 1 /\ j >= 1 /\ j < i - 1 /\ d[j] = lx THEN j ELSE 0

\* whether the status/decode preamble, with a status of sts, ends at i
PreambleBefore(d, i, sts) ==
  LET a == PrevLine(d, i, NoErrorLx)
      b == PrevLine(d, a, UnmarshalLx)
      c == PrevLine(d, b, VarResponseLx)
      e == PrevLine(d, c, CheckResponseLx)
      f == PrevLine(d, e, ",")
  IN f >= 3 /\ d[f - 1] \in sts /\ d[f - 2] = ExpectedStatusLx

\* first position of the line of position i
RECURSIVE LineStart(_, _)
LineStart(d, i) ==
  IF i <= 1 THEN 1
  ELSE IF d[i - 1] = NL THEN i ELSE LineStart(d, i - 1)

\* the indentation of the line of position i
IndentOf(d, i) ==
  LET ls == LineStart(d, i)
      n  == RunLen(d, ls, "s+")
  IN SubSeq(d, ls, ls + (IF n < i - ls THEN n ELSE i - ls) - 1)

\* the new idiom: four statements, the last three on lines indented by ind
FourStatements(ind, lit, info) ==
  << EqualLx, "false", CommaLx, RespSuccess, CloseLx, NL >> \o ind
  \o << ErrorInfoLx, NL >> \o ind
  \o << AssertTrueLx, NL >> \o ind
  \o << EqualLx, QUOTE >> \o lit \o << QUOTE, CommaLx, info, CloseLx >>

InfoOf(resp) ==
  IF resp = RespMessage THEN InfoMessage
  ELSE IF resp = RespDetails THEN InfoDetails ELSE InfoCode

Keep == [len |-> 0, new |-> << >>]

\* number of lexemes from position i to the next quote
RECURSIVE ToQuote(_, _)
ToQuote(d, i) ==
  IF i > Len(d) \/ d[i] = QUOTE THEN 0 ELSE 1 + ToQuote(d, i + 1)

\* d with every statement the plan marks replaced by the plan's new text and
\* every other lexeme kept, in order
RECURSIVE FrameFrom(_, _, _)
FrameFrom(d, pos, plan) ==
  LET at == { i \in pos..Len(d) : plan[i].len > 0 }
  IN IF at = {} THEN SubSeq(d, pos, Len(d))
     ELSE LET p == CHOOSE x \in at : \A y \in at : x <= y
          IN SubSeq(d, pos, p - 1) \o plan[p].new
             \o FrameFrom(d, p + plan[p].len, plan)

\* the two (status, literal, field) triples fix_handler_tests.py names
HandlerCases ==
  << [status |-> StatusConflict, lit |-> EmailExists, resp |-> RespMessage],
     [status |-> StatusInternalServerError, lit |-> DbError, resp |-> RespDetails] >>

\* the statements of the first n handler cases, each after its preamble;
\* own = TRUE indents the new lines as the replaced line, FALSE by four tabs
HandlerPlan(d, n, own) ==
  [i \in 1..Len(d) |->
     IF \E r \in 1..n :
          /\ i + 6 <= Len(d)
          /\ SubSeq(d, i, i + 6) = EqualStmt(HandlerCases[r].lit, HandlerCases[r].resp)
          /\ PreambleBefore(d, i, {HandlerCases[r].status})
     THEN [len |-> 7,
           new |-> FourStatements(IF own THEN IndentOf(d, i) ELSE T4,
                                  << d[i + 2] >>, InfoOf(d[i + 5]))]
     ELSE Keep]

\* every assert.Equal(t, "<literal>", response["message" | "details"]) that
\* follows the preamble of any error status
ErrorStatuses ==
  {StatusConflict, StatusInternalServerError, StatusNotFound, StatusBadRequest}

ErrorFieldPlan(d) ==
  [i \in 1..Len(d) |->
     IF /\ i + 6 <= Len(d)
        /\ d[i] = EqualLx /\ d[i + 1] = QUOTE /\ d[i + 3] = QUOTE
        /\ d[i + 4] = CommaLx /\ d[i + 5] \in {RespMessage, RespDetails}
        /\ d[i + 6] = CloseLx
        /\ PreambleBefore(d, i, ErrorStatuses)
     THEN [len |-> 7, new |-> FourStatements(T4, << d[i + 2] >>, InfoOf(d[i + 5]))]
     ELSE Keep]

\* assert.Contains(t, "<literal>", response["code"]); words = TRUE asks the
\* literal to be one or more word lexemes, FALSE takes any literal
CodePlan(d, words, own) ==
  [i \in 1..Len(d) |->
     LET n == ToQuote(d, i + 2)
     IN IF /\ i + 5 + n <= Len(d)
           /\ d[i] = ContainsLx /\ d[i + 1] = QUOTE /\ d[i + 2 + n] = QUOTE
           /\ d[i + 3 + n] = CommaLx /\ d[i + 4 + n] = RespCode
           /\ d[i + 5 + n] = CloseLx
           /\ (words => n >= 1 /\ \A j \in (i + 2)..(i + 1 + n) : IsWord(d[j]))
        THEN [len |-> 6 + n,
              new |-> FourStatements(IF own THEN IndentOf(d, i) ELSE T4,
                                     SubSeq(d, i + 2, i + 1 + n), InfoCode)]
        ELSE Keep]

Frame(d, plan) == FrameFrom(d, 1, plan)

IsHandler == script = HandlerScript

IsResponses == script = ResponsesScript

\* the rules of the running script applied so far, during the first pass
RulesDone == IF passes >= 1 THEN Len(replacements) ELSE ruleIdx - 1

PassDone == pc = "open_w" /\ passes >= 1

\* ------------------------------------------------------------------------
\* Claims
\* ------------------------------------------------------------------------
OpenedForWrite == \E i \in 1..Len(opens) : opens[i].mode = "w"

\* the run met no failure of its environment: the file is there and may be
\* written, the command line is the one the script expects, and no write
\* error or interrupt ended the run
EnvironmentFine ==
  /\ fs[Target].exists
  /\ fs[Target].writable
  /\ (IsResponses => Len(argv) = 2)
  /\ err \notin {"OSError", "KeyboardInterrupt"}

\* C1: every assert.Contains(t, "L", response["code"]), whatever the literal
\* L, is replaced by the four statements of the new idiom with L kept: a
\* run of fix_test_responses.py on a file ends with the file so rewritten.
C1_EveryCodeCheckRewritten ==
  (IsResponses /\ pc \in Terminal /\ EnvironmentFine)
    => fs[ArgPath].text = Frame(orig, CodePlan(orig, FALSE, FALSE))

\* C2: the document of three error-message blocks ("Email already exists",
\* "User not found", "Invalid input") comes out with all three blocks in the
\* new format, each with its own literal, and no response["message"] left.
ThreeBlocks == Flatten(HandlerBlocks, << 1, 4, 5 >>)

C2_ThreeBlocksRewritten ==
  (IsHandler /\ PassDone /\ orig = ThreeBlocks)
    => /\ \A i \in 1..Len(content) : content[i] # RespMessage
       /\ content = Frame(orig, ErrorFieldPlan(orig))

\* C3: an assert.Equal on response["message"] or response["details"] is
\* rewritten if and only if it follows the status/decode preamble, white
\* space only in between; without the preamble it is left as it is.
C3_ScopedMatching ==
  (IsHandler /\ PassDone) => content = Frame(orig, ErrorFieldPlan(orig))

\* C4: every inserted line starts with the indentation of the line that held
\* the replaced assertion, in the rules of both scripts.
C4_IndentationPreserved ==
  PassDone =>
    content = Frame(orig, IF IsHandler
                          THEN HandlerPlan(orig, Len(replacements), TRUE)
                          ELSE CodePlan(orig, TRUE, TRUE))

\* C5: the rule set applied to its own output changes nothing: once a full
\* pass is done, no further application of a rule or of fix_test_file
\* changes the text.
C5_Idempotent == [][passes >= 1 => content' = content]_vars

C5_Witness ==
  /\ IsHandler /\ pc = "open_w" /\ passes >= 2
  /\ content # orig
  /\ Matches(ConflictPattern, orig) /\ Matches(ServerErrorPattern, orig)

\* C6: on a document no rule matches, the run raises no error and completes:
\* the same text is written back to the same path and the confirmation is
\* printed.
NoRuleMatches(d) ==
  IF IsHandler
  THEN \A r \in 1..Len(replacements) : ~Matches(replacements[r].pattern, d)
  ELSE ~Matches(CodePattern, d)

C6_NoMatchRunCompletes ==
  (pc \in Terminal /\ EnvironmentFine /\ NoRuleMatches(orig))
    => /\ pc = "done"
       /\ err = ""
       /\ fs[Target].text = orig
       /\ stdout = << FixedLine(Target) >>

\* C7, as claimed: the target file holds at every moment the original text
\* or the complete rewritten text.
C7_NeverPartial ==
  fs[Target].text \in
    {orig, IF IsHandler THEN ApplyRules(orig, 1) ELSE fix_test_file(orig)}

\* C7, amended: the destination is opened for writing only after the read
\* and all rules are done; until that open the file holds the original text;
\* the open empties the file, and from then on it holds a prefix of the
\* rewritten text, the whole of it once the write is complete.
C7_WriteAfterCompute ==
  /\ OpenedForWrite =>
       /\ opens = << [path |-> Target, mode |-> "r"], [path |-> Target, mode |-> "w"] >>
       /\ passes >= 1
       /\ content = Frame(orig, HandlerPlan(orig, Len(replacements), FALSE))
       /\ Len(fs[Target].text) <= Len(content)
       /\ fs[Target].text = SubSeq(content, 1, Len(fs[Target].text))
  /\ ~OpenedForWrite => fs[Target].text = orig
  /\ pc \in {"print", "done"} => fs[Target].text = content
  /\ \A p \in Paths \ {Target} : fs[p] = Bystander

C7_Witness ==
  /\ pc = "failed" /\ err = "OSError"
  /\ fs[Target].text # << >>
  /\ fs[Target].text # content
  /\ fs[Target].text # orig
  /\ content # orig

\* C8: with a number of arguments other than one, fix_test_responses.py
\* prints the usage message and ends with status 1; it opens no file and
\* prints no confirmation.
C8_UsageOnWrongArguments ==
  (IsResponses /\ Len(argv) # 2 /\ pc \in Terminal /\ err # "KeyboardInterrupt")
    => /\ stdout = << UsageLine >>
       /\ exit = 1
       /\ opens = << >>
       /\ fs[ArgPath].text = orig

\* C9: "Fixed <path>" is printed at most once, only when the rewritten text
\* is in the file, with the path that was read and written; a run that ends
\* well has printed it, a run that fails has not.
C9_ConfirmationAfterWrite ==
  /\ Len(stdout) <= 1
  /\ stdout # << >> =>
       /\ pc = "done"
       /\ fs[Target].text = content
       /\ Len(opens) = 2
       /\ opens[1].mode = "r" /\ opens[2].mode = "w"
       /\ stdout[1] = FixedLine(opens[1].path)
       /\ opens[2].path = opens[1].path
  /\ pc = "done" => stdout # << >> /\ exit = 0
  /\ pc = "failed" => stdout = << >> /\ exit # 0

C9_Witness ==
  /\ pc = "done"
  /\ stdout = << FixedLine(HandlerPath) >>
  /\ content # orig

\* C10: the rules act in list order, each on the whole output of the one
\* before; outside the assertion statements they replace, every lexeme of the
\* document is kept in order, the matched preamble included; the one old
\* statement gives way to the four new ones.
C10_Frame ==
  /\ (IsHandler /\ pc \in {"rules", "open_w"})
       => content = Frame(orig, HandlerPlan(orig, RulesDone, FALSE))
  /\ (IsResponses /\ pc = "open_w")
       => content = Frame(orig, CodePlan(orig, TRUE, FALSE))
  /\ (IsResponses /\ pc = "fix" /\ passes = 0) => content = orig

C10_Witness ==
  /\ IsHandler /\ PassDone
  /\ Matches(ConflictPattern, orig) /\ Matches(ServerErrorPattern, orig)
  /\ \E i \in 1..Len(orig) : orig[i] = "User not found"
  /\ content # orig

====
